---------------------------- MODULE Spec2Model ----------------------------
(***************************************************************************)
(* Text to Indian-Sign-Language lookup service.                            *)
(*                                                                         *)
(* Two deployments are modelled: the backend API (src/backend/server.py)   *)
(* and the earlier single-file server (src/server.py, "legacy" below).     *)
(* A Python str is a sequence of one-character strings, so that            *)
(* lower(), strip(), the punctuation filter and the letter loop are        *)
(* computed character by character as the code computes them.              *)
(* Request texts are ASCII.                                                *)
(***************************************************************************)
EXTENDS Integers, Sequences, FiniteSets, TLC

VARIABLES
    ISL_PHRASES,        \* backend: module-level phrase list
    AVAILABLE_LETTERS,  \* backend: module-level letter list
    isl_gif,            \* legacy: module-level phrase list
    arr,                \* legacy: module-level letter list
    request,            \* the request being handled: [app, path, text]
    entered,            \* TRUE once the body of a process_text handler runs
    text,               \* process_text's local `text` after normalization
    response,           \* the response sent for `request`
    pc,                 \* "idle" | "received" | "responded"
    served              \* history: the number of requests answered so far

vars == << ISL_PHRASES, AVAILABLE_LETTERS, isl_gif, arr,
           request, entered, text, response, pc, served >>

tables == << ISL_PHRASES, AVAILABLE_LETTERS, isl_gif, arr >>

---------------------------------------------------------------------------
(* Bounds of the model.                                                    *)

\* longest request text enumerated over ShortAlphabet
MaxShortLen == 4

\* longest request text of the long-running server specification
MaxServerLen == 2

\* the number of requests the long-running server specification follows
MaxServed == 3

---------------------------------------------------------------------------
(* Python's str and string module, on sequences of characters.             *)

ascii_lowercase ==
    << "a","b","c","d","e","f","g","h","i","j","k","l","m",
       "n","o","p","q","r","s","t","u","v","w","x","y","z" >>

ascii_uppercase ==
    << "A","B","C","D","E","F","G","H","I","J","K","L","M",
       "N","O","P","Q","R","S","T","U","V","W","X","Y","Z" >>

\* chr(96), the backtick, which a TLA+ string cannot hold
chr96 == "chr(96)"

\* string.punctuation
punctuation ==
    { "!", "\"", "#", "$", "%", "&", "'", "(", ")", "*", "+", ",", "-", ".",
      "/", ":", ";", "<", "=", ">", "?", "@", "[", "\\", "]", "^", "_", chr96,
      "{", "|", "}", "~" }

\* the characters str.strip() removes, as far as a TLA+ string can hold
\* them (Python also strips chr(11), chr(28)..chr(31) and the non-ASCII blanks)
whitespace == { " ", "\t", "\n", "\r", "\f" }

\* the printable ASCII characters in code-point order, from chr(32)
ascii_printable ==
    << " ", "!", "\"", "#", "$", "%", "&", "'", "(", ")", "*", "+", ",", "-",
       ".", "/", "0", "1", "2", "3", "4", "5", "6", "7", "8", "9", ":", ";",
       "<", "=", ">", "?", "@",
       "A","B","C","D","E","F","G","H","I","J","K","L","M",
       "N","O","P","Q","R","S","T","U","V","W","X","Y","Z",
       "[", "\\", "]", "^", "_", chr96,
       "a","b","c","d","e","f","g","h","i","j","k","l","m",
       "n","o","p","q","r","s","t","u","v","w","x","y","z",
       "{", "|", "}", "~" >>

\* ord(c) of a printable ASCII character
ord(c) == 31 + (CHOOSE i \in DOMAIN ascii_printable : ascii_printable[i] = c)

\* x in list
in_list(x, list) == \E i \in DOMAIN list : list[i] = x

\* one character of str.lower()
lower_char(c) ==
    IF in_list(c, ascii_uppercase)
    THEN ascii_lowercase[CHOOSE i \in DOMAIN ascii_uppercase : ascii_uppercase[i] = c]
    ELSE c

\* s.lower()
lower(s) == [i \in 1..Len(s) |-> lower_char(s[i])]

\* one character of str.upper()
upper_char(c) ==
    IF in_list(c, ascii_lowercase)
    THEN ascii_uppercase[CHOOSE i \in DOMAIN ascii_lowercase : ascii_lowercase[i] = c]
    ELSE c

\* s.upper()
upper(s) == [i \in 1..Len(s) |-> upper_char(s[i])]

\* s.strip(): drop the leading and the trailing whitespace
strip(s) ==
    LET kept == { i \in 1..Len(s) : s[i] \notin whitespace }
        first == CHOOSE i \in kept : \A j \in kept : i <= j
        last == CHOOSE i \in kept : \A j \in kept : j <= i
    IN  IF kept = {} THEN << >> ELSE SubSeq(s, first, last)

\* ''.join([c for c in s if c not in string.punctuation])
remove_punctuation(s) == SelectSeq(s, LAMBDA c : c \notin punctuation)

\* a < b on str: lexicographic by code point
str_lt(a, b) ==
    \E k \in 1..Len(b) :
        /\ k <= Len(a) + 1
        /\ \A m \in 1..(k - 1) : a[m] = b[m]
        /\ \/ k = Len(a) + 1
           \/ ord(a[k]) < ord(b[k])

\* sorted(list): a new list, ascending and stable.  Element j of `list`
\* goes to the position that counts the elements ordered before it.
sorted(list) ==
    LET n == Len(list)
        before(k, j) == str_lt(list[k], list[j]) \/ (list[k] = list[j] /\ k < j)
        placed == { << j, 1 + Cardinality({ k \in 1..n : before(k, j) }) >> : j \in 1..n }
    IN  [i \in 1..n |-> list[(CHOOSE pr \in placed : pr[2] = i)[1]]]

---------------------------------------------------------------------------
(* The static reference tables, as the source writes them.                 *)

ISL_PHRASES_literal ==
    << <<"a","n","y"," ","q","u","e","s","t","i","o","n","s">>,
       <<"a","r","e"," ","y","o","u"," ","a","n","g","r","y">>,
       <<"a","r","e"," ","y","o","u"," ","b","u","s","y">>,
       <<"a","r","e"," ","y","o","u"," ","h","u","n","g","r","y">>,
       <<"a","r","e"," ","y","o","u"," ","s","i","c","k">>,
       <<"b","e"," ","c","a","r","e","f","u","l">>,
       <<"c","a","n"," ","w","e"," ","m","e","e","t"," ","t","o","m","o","r","r","o","w">>,
       <<"d","i","d"," ","y","o","u"," ","b","o","o","k"," ","t","i","c","k","e","t","s">>,
       <<"d","i","d"," ","y","o","u"," ","f","i","n","i","s","h"," ","h","o","m","e","w","o","r","k">>,
       <<"d","o"," ","y","o","u"," ","g","o"," ","t","o"," ","o","f","f","i","c","e">>,
       <<"d","o"," ","y","o","u"," ","h","a","v","e"," ","m","o","n","e","y">>,
       <<"d","o"," ","y","o","u"," ","w","a","n","t"," ","s","o","m","e","t","h","i","n","g"," ","t","o"," ","d","r","i","n","k">>,
       <<"d","o"," ","y","o","u"," ","w","a","n","t"," ","t","e","a"," ","o","r"," ","c","o","f","f","e","e">>,
       <<"d","o"," ","y","o","u"," ","w","a","t","c","h"," ","T","V">>,
       <<"d","o","n","t"," ","w","o","r","r","y">>,
       <<"f","l","o","w","e","r"," ","i","s"," ","b","e","a","u","t","i","f","u","l">>,
       <<"g","o","o","d"," ","a","f","t","e","r","n","o","o","n">>,
       <<"g","o","o","d"," ","e","v","e","n","i","n","g">>,
       <<"g","o","o","d"," ","m","o","r","n","i","n","g">>,
       <<"g","o","o","d"," ","n","i","g","h","t">>,
       <<"g","o","o","d"," ","q","u","e","s","t","i","o","n">>,
       <<"h","a","d"," ","y","o","u","r"," ","l","u","n","c","h">>,
       <<"h","a","p","p","y"," ","j","o","u","r","n","e","y">>,
       <<"h","e","l","l","o"," ","w","h","a","t"," ","i","s"," ","y","o","u","r"," ","n","a","m","e">>,
       <<"h","o","w"," ","m","a","n","y"," ","p","e","o","p","l","e"," ","a","r","e"," ","t","h","e","r","e"," ","i","n"," ","y","o","u","r"," ","f","a","m","i","l","y">>,
       <<"i"," ","a","m"," ","a"," ","c","l","e","r","k">>,
       <<"i"," ","a","m"," ","b","o","r","e"," ","d","o","i","n","g"," ","n","o","t","h","i","n","g">>,
       <<"i"," ","a","m"," ","f","i","n","e">>,
       <<"i"," ","a","m"," ","s","o","r","r","y">>,
       <<"i"," ","a","m"," ","t","h","i","n","k","i","n","g">>,
       <<"i"," ","a","m"," ","t","i","r","e","d">>,
       <<"i"," ","d","o","n","t"," ","u","n","d","e","r","s","t","a","n","d"," ","a","n","y","t","h","i","n","g">>,
       <<"i"," ","g","o"," ","t","o"," ","a"," ","t","h","e","a","t","r","e">>,
       <<"i"," ","l","o","v","e"," ","t","o"," ","s","h","o","p">>,
       <<"i"," ","h","a","d"," ","t","o"," ","s","a","y"," ","s","o","m","e","t","h","i","n","g"," ","b","u","t"," ","i"," ","f","o","r","g","o","t">>,
       <<"i"," ","h","a","v","e"," ","h","e","a","d","a","c","h","e">>,
       <<"i"," ","l","i","k","e"," ","p","i","n","k"," ","c","o","l","o","u","r">>,
       <<"i"," ","l","i","v","e"," ","i","n"," ","n","a","g","p","u","r">>,
       <<"l","e","t","s"," ","g","o"," ","f","o","r"," ","l","u","n","c","h">>,
       <<"m","y"," ","m","o","t","h","e","r"," ","i","s"," ","a"," ","h","o","m","e","m","a","k","e","r">>,
       <<"m","y"," ","n","a","m","e"," ","i","s"," ","j","o","h","n">>,
       <<"n","i","c","e"," ","t","o"," ","m","e","e","t"," ","y","o","u">>,
       <<"n","o"," ","s","m","o","k","i","n","g"," ","p","l","e","a","s","e">>,
       <<"o","p","e","n"," ","t","h","e"," ","d","o","o","r">>,
       <<"p","l","e","a","s","e"," ","c","a","l","l"," ","m","e"," ","l","a","t","e","r">>,
       <<"p","l","e","a","s","e"," ","c","l","e","a","n"," ","t","h","e"," ","r","o","o","m">>,
       <<"p","l","e","a","s","e"," ","g","i","v","e"," ","m","e"," ","y","o","u","r"," ","p","e","n">>,
       <<"p","l","e","a","s","e"," ","u","s","e"," ","d","u","s","t","b","i","n"," ","d","o","n","t"," ","t","h","r","o","w"," ","g","a","r","b","a","g","e">>,
       <<"p","l","e","a","s","e"," ","w","a","i","t"," ","f","o","r"," ","s","o","m","e","t","i","m","e">>,
       <<"s","h","a","l","l"," ","I"," ","h","e","l","p"," ","y","o","u">>,
       <<"s","h","a","l","l"," ","w","e"," ","g","o"," ","t","o","g","e","t","h","e","r"," ","t","o","m","m","o","r","o","w">>,
       <<"s","i","g","n"," ","l","a","n","g","u","a","g","e"," ","i","n","t","e","r","p","r","e","t","e","r">>,
       <<"s","i","t"," ","d","o","w","n">>,
       <<"s","t","a","n","d"," ","u","p">>,
       <<"t","a","k","e"," ","c","a","r","e">>,
       <<"t","h","e","r","e"," ","w","a","s"," ","t","r","a","f","f","i","c"," ","j","a","m">>,
       <<"w","a","i","t"," ","I"," ","a","m"," ","t","h","i","n","k","i","n","g">>,
       <<"w","h","a","t"," ","a","r","e"," ","y","o","u"," ","d","o","i","n","g">>,
       <<"w","h","a","t"," ","i","s"," ","t","h","e"," ","p","r","o","b","l","e","m">>,
       <<"w","h","a","t"," ","i","s"," ","t","o","d","a","y","s"," ","d","a","t","e">>,
       <<"w","h","a","t"," ","i","s"," ","y","o","u","r"," ","f","a","t","h","e","r"," ","d","o">>,
       <<"w","h","a","t"," ","i","s"," ","y","o","u","r"," ","j","o","b">>,
       <<"w","h","a","t"," ","i","s"," ","y","o","u","r"," ","m","o","b","i","l","e"," ","n","u","m","b","e","r">>,
       <<"w","h","a","t"," ","i","s"," ","y","o","u","r"," ","n","a","m","e">>,
       <<"w","h","a","t","s"," ","u","p">>,
       <<"w","h","e","n"," ","i","s"," ","y","o","u","r"," ","i","n","t","e","r","v","i","e","w">>,
       <<"w","h","e","n"," ","w","e"," ","w","i","l","l"," ","g","o">>,
       <<"w","h","e","r","e"," ","d","o"," ","y","o","u"," ","s","t","a","y">>,
       <<"w","h","e","r","e"," ","i","s"," ","t","h","e"," ","b","a","t","h","r","o","o","m">>,
       <<"w","h","e","r","e"," ","i","s"," ","t","h","e"," ","p","o","l","i","c","e"," ","s","t","a","t","i","o","n">>,
       <<"y","o","u"," ","a","r","e"," ","w","r","o","n","g">>,
       <<"a","d","d","r","e","s","s">>,
       <<"a","g","r","a">>,
       <<"a","h","e","m","d","a","b","a","d">>,
       <<"a","l","l">>,
       <<"a","p","r","i","l">>,
       <<"a","s","s","a","m">>,
       <<"a","u","g","u","s","t">>,
       <<"a","u","s","t","r","a","l","i","a">>,
       <<"b","a","d","o","d","a">>,
       <<"b","a","n","a","n","a">>,
       <<"b","a","n","a","r","a","s">>,
       <<"b","a","n","g","l","o","r","e">>,
       <<"b","i","h","a","r">>,
       <<"b","r","i","d","g","e">>,
       <<"c","a","t">>,
       <<"c","h","a","n","d","i","g","a","r","h">>,
       <<"c","h","e","n","n","a","i">>,
       <<"c","h","r","i","s","t","m","a","s">>,
       <<"c","h","u","r","c","h">>,
       <<"c","l","i","n","i","c">>,
       <<"c","o","c","o","n","u","t">>,
       <<"c","r","o","c","o","d","i","l","e">>,
       <<"d","a","s","a","r","a">>,
       <<"d","e","a","f">>,
       <<"d","e","c","e","m","b","e","r">>,
       <<"d","e","e","r">>,
       <<"d","e","l","h","i">>,
       <<"d","o","l","l","a","r">>,
       <<"d","u","c","k">>,
       <<"f","e","b","u","a","r","y">>,
       <<"f","r","i","d","a","y">>,
       <<"f","r","u","i","t","s">>,
       <<"g","l","a","s","s">>,
       <<"g","r","a","p","e","s">>,
       <<"g","u","j","r","a","t">>,
       <<"h","e","l","l","o">>,
       <<"h","i","n","d","u">>,
       <<"h","y","d","e","r","a","b","a","d">>,
       <<"i","n","d","i","a">>,
       <<"j","a","n","u","a","r","y">>,
       <<"j","e","s","u","s">>,
       <<"j","o","b">>,
       <<"j","u","l","y">>,
       <<"j","u","n","e">>,
       <<"k","a","r","n","a","t","a","k","a">>,
       <<"k","e","r","a","l","a">>,
       <<"k","r","i","s","h","n","a">>,
       <<"l","i","t","r","e">>,
       <<"m","a","n","g","o">>,
       <<"m","a","y">>,
       <<"m","i","l","e">>,
       <<"m","o","n","d","a","y">>,
       <<"m","u","m","b","a","i">>,
       <<"m","u","s","e","u","m">>,
       <<"m","u","s","l","i","m">>,
       <<"n","a","g","p","u","r">>,
       <<"o","c","t","o","b","e","r">>,
       <<"o","r","a","n","g","e">>,
       <<"p","a","k","i","s","t","a","n">>,
       <<"p","a","s","s">>,
       <<"p","o","l","i","c","e"," ","s","t","a","t","i","o","n">>,
       <<"p","o","s","t"," ","o","f","f","i","c","e">>,
       <<"p","u","n","e">>,
       <<"p","u","n","j","a","b">>,
       <<"r","a","j","a","s","t","h","a","n">>,
       <<"r","a","m">>,
       <<"r","e","s","t","a","u","r","a","n","t">>,
       <<"s","a","t","u","r","d","a","y">>,
       <<"s","e","p","t","e","m","b","e","r">>,
       <<"s","h","o","p">>,
       <<"s","l","e","e","p">>,
       <<"s","o","u","t","h","a","f","r","i","c","a">>,
       <<"s","t","o","r","y">>,
       <<"s","u","n","d","a","y">>,
       <<"t","a","m","i","l"," ","n","a","d","u">>,
       <<"t","e","m","p","e","r","a","t","u","r","e">>,
       <<"t","e","m","p","l","e">>,
       <<"t","h","a","n","k">>,
       <<"t","h","u","r","s","d","a","y">>,
       <<"t","o","i","l","e","t">>,
       <<"t","o","m","a","t","o">>,
       <<"t","o","w","n">>,
       <<"t","u","e","s","d","a","y">>,
       <<"u","s","a">>,
       <<"v","i","l","l","a","g","e">>,
       <<"v","o","i","c","e">>,
       <<"w","e","d","n","e","s","d","a","y">>,
       <<"w","e","i","g","h","t">>,
       <<"w","e","l","c","o","m","e">>,
       <<"h","i">>,
       <<"y","o","u","r","s","e","l","f">> >>

isl_gif_literal ==
    << <<"a","n","y"," ","q","u","e","s","t","i","o","n","s">>,
       <<"a","r","e"," ","y","o","u"," ","a","n","g","r","y">>,
       <<"a","r","e"," ","y","o","u"," ","b","u","s","y">>,
       <<"a","r","e"," ","y","o","u"," ","h","u","n","g","r","y">>,
       <<"a","r","e"," ","y","o","u"," ","s","i","c","k">>,
       <<"b","e"," ","c","a","r","e","f","u","l">>,
       <<"c","a","n"," ","w","e"," ","m","e","e","t"," ","t","o","m","o","r","r","o","w">>,
       <<"d","i","d"," ","y","o","u"," ","b","o","o","k"," ","t","i","c","k","e","t","s">>,
       <<"d","i","d"," ","y","o","u"," ","f","i","n","i","s","h"," ","h","o","m","e","w","o","r","k">>,
       <<"d","o"," ","y","o","u"," ","g","o"," ","t","o"," ","o","f","f","i","c","e">>,
       <<"d","o"," ","y","o","u"," ","h","a","v","e"," ","m","o","n","e","y">>,
       <<"d","o"," ","y","o","u"," ","w","a","n","t"," ","s","o","m","e","t","h","i","n","g"," ","t","o"," ","d","r","i","n","k">>,
       <<"d","o"," ","y","o","u"," ","w","a","n","t"," ","t","e","a"," ","o","r"," ","c","o","f","f","e","e">>,
       <<"d","o"," ","y","o","u"," ","w","a","t","c","h"," ","T","V">>,
       <<"d","o","n","t"," ","w","o","r","r","y">>,
       <<"f","l","o","w","e","r"," ","i","s"," ","b","e","a","u","t","i","f","u","l">>,
       <<"g","o","o","d"," ","a","f","t","e","r","n","o","o","n">>,
       <<"g","o","o","d"," ","e","v","e","n","i","n","g">>,
       <<"g","o","o","d"," ","m","o","r","n","i","n","g">>,
       <<"g","o","o","d"," ","n","i","g","h","t">>,
       <<"g","o","o","d"," ","q","u","e","s","t","i","o","n">>,
       <<"h","a","d"," ","y","o","u","r"," ","l","u","n","c","h">>,
       <<"h","a","p","p","y"," ","j","o","u","r","n","e","y">>,
       <<"h","e","l","l","o"," ","w","h","a","t"," ","i","s"," ","y","o","u","r"," ","n","a","m","e">>,
       <<"h","o","w"," ","m","a","n","y"," ","p","e","o","p","l","e"," ","a","r","e"," ","t","h","e","r","e"," ","i","n"," ","y","o","u","r"," ","f","a","m","i","l","y">>,
       <<"i"," ","a","m"," ","a"," ","c","l","e","r","k">>,
       <<"i"," ","a","m"," ","b","o","r","e"," ","d","o","i","n","g"," ","n","o","t","h","i","n","g">>,
       <<"i"," ","a","m"," ","f","i","n","e">>,
       <<"i"," ","a","m"," ","s","o","r","r","y">>,
       <<"i"," ","a","m"," ","t","h","i","n","k","i","n","g">>,
       <<"i"," ","a","m"," ","t","i","r","e","d">>,
       <<"i"," ","d","o","n","t"," ","u","n","d","e","r","s","t","a","n","d"," ","a","n","y","t","h","i","n","g">>,
       <<"i"," ","g","o"," ","t","o"," ","a"," ","t","h","e","a","t","r","e">>,
       <<"i"," ","l","o","v","e"," ","t","o"," ","s","h","o","p">>,
       <<"i"," ","h","a","d"," ","t","o"," ","s","a","y"," ","s","o","m","e","t","h","i","n","g"," ","b","u","t"," ","i"," ","f","o","r","g","o","t">>,
       <<"i"," ","h","a","v","e"," ","h","e","a","d","a","c","h","e">>,
       <<"i"," ","l","i","k","e"," ","p","i","n","k"," ","c","o","l","o","u","r">>,
       <<"i"," ","l","i","v","e"," ","i","n"," ","n","a","g","p","u","r">>,
       <<"l","e","t","s"," ","g","o"," ","f","o","r"," ","l","u","n","c","h">>,
       <<"m","y"," ","m","o","t","h","e","r"," ","i","s"," ","a"," ","h","o","m","e","m","a","k","e","r">>,
       <<"m","y"," ","n","a","m","e"," ","i","s"," ","j","o","h","n">>,
       <<"n","i","c","e"," ","t","o"," ","m","e","e","t"," ","y","o","u">>,
       <<"n","o"," ","s","m","o","k","i","n","g"," ","p","l","e","a","s","e">>,
       <<"o","p","e","n"," ","t","h","e"," ","d","o","o","r">>,
       <<"p","l","e","a","s","e"," ","c","a","l","l"," ","m","e"," ","l","a","t","e","r">>,
       <<"p","l","e","a","s","e"," ","c","l","e","a","n"," ","t","h","e"," ","r","o","o","m">>,
       <<"p","l","e","a","s","e"," ","g","i","v","e"," ","m","e"," ","y","o","u","r"," ","p","e","n">>,
       <<"p","l","e","a","s","e"," ","u","s","e"," ","d","u","s","t","b","i","n"," ","d","o","n","t"," ","t","h","r","o","w"," ","g","a","r","b","a","g","e">>,
       <<"p","l","e","a","s","e"," ","w","a","i","t"," ","f","o","r"," ","s","o","m","e","t","i","m","e">>,
       <<"s","h","a","l","l"," ","I"," ","h","e","l","p"," ","y","o","u">>,
       <<"s","h","a","l","l"," ","w","e"," ","g","o"," ","t","o","g","e","t","h","e","r"," ","t","o","m","m","o","r","o","w">>,
       <<"s","i","g","n"," ","l","a","n","g","u","a","g","e"," ","i","n","t","e","r","p","r","e","t","e","r">>,
       <<"s","i","t"," ","d","o","w","n">>,
       <<"s","t","a","n","d"," ","u","p">>,
       <<"t","a","k","e"," ","c","a","r","e">>,
       <<"t","h","e","r","e"," ","w","a","s"," ","t","r","a","f","f","i","c"," ","j","a","m">>,
       <<"w","a","i","t"," ","I"," ","a","m"," ","t","h","i","n","k","i","n","g">>,
       <<"w","h","a","t"," ","a","r","e"," ","y","o","u"," ","d","o","i","n","g">>,
       <<"w","h","a","t"," ","i","s"," ","t","h","e"," ","p","r","o","b","l","e","m">>,
       <<"w","h","a","t"," ","i","s"," ","t","o","d","a","y","s"," ","d","a","t","e">>,
       <<"w","h","a","t"," ","i","s"," ","y","o","u","r"," ","f","a","t","h","e","r"," ","d","o">>,
       <<"w","h","a","t"," ","i","s"," ","y","o","u","r"," ","j","o","b">>,
       <<"w","h","a","t"," ","i","s"," ","y","o","u","r"," ","m","o","b","i","l","e"," ","n","u","m","b","e","r">>,
       <<"w","h","a","t"," ","i","s"," ","y","o","u","r"," ","n","a","m","e">>,
       <<"w","h","a","t","s"," ","u","p">>,
       <<"w","h","e","n"," ","i","s"," ","y","o","u","r"," ","i","n","t","e","r","v","i","e","w">>,
       <<"w","h","e","n"," ","w","e"," ","w","i","l","l"," ","g","o">>,
       <<"w","h","e","r","e"," ","d","o"," ","y","o","u"," ","s","t","a","y">>,
       <<"w","h","e","r","e"," ","i","s"," ","t","h","e"," ","b","a","t","h","r","o","o","m">>,
       <<"w","h","e","r","e"," ","i","s"," ","t","h","e"," ","p","o","l","i","c","e"," ","s","t","a","t","i","o","n">>,
       <<"y","o","u"," ","a","r","e"," ","w","r","o","n","g">>,
       <<"a","d","d","r","e","s","s">>,
       <<"a","g","r","a">>,
       <<"a","h","e","m","d","a","b","a","d">>,
       <<"a","l","l">>,
       <<"a","p","r","i","l">>,
       <<"a","s","s","a","m">>,
       <<"a","u","g","u","s","t">>,
       <<"a","u","s","t","r","a","l","i","a">>,
       <<"b","a","d","o","d","a">>,
       <<"b","a","n","a","n","a">>,
       <<"b","a","n","a","r","a","s">>,
       <<"b","a","n","g","l","o","r","e">>,
       <<"b","i","h","a","r">>,
       <<"b","r","i","d","g","e">>,
       <<"c","a","t">>,
       <<"c","h","a","n","d","i","g","a","r","h">>,
       <<"c","h","e","n","n","a","i">>,
       <<"c","h","r","i","s","t","m","a","s">>,
       <<"c","h","u","r","c","h">>,
       <<"c","l","i","n","i","c">>,
       <<"c","o","c","o","n","u","t">>,
       <<"c","r","o","c","o","d","i","l","e">>,
       <<"d","a","s","a","r","a">>,
       <<"d","e","a","f">>,
       <<"d","e","c","e","m","b","e","r">>,
       <<"d","e","e","r">>,
       <<"d","e","l","h","i">>,
       <<"d","o","l","l","a","r">>,
       <<"d","u","c","k">>,
       <<"f","e","b","u","a","r","y">>,
       <<"f","r","i","d","a","y">>,
       <<"f","r","u","i","t","s">>,
       <<"g","l","a","s","s">>,
       <<"g","r","a","p","e","s">>,
       <<"g","u","j","r","a","t">>,
       <<"h","e","l","l","o">>,
       <<"h","i","n","d","u">>,
       <<"h","y","d","e","r","a","b","a","d">>,
       <<"i","n","d","i","a">>,
       <<"j","a","n","u","a","r","y">>,
       <<"j","e","s","u","s">>,
       <<"j","o","b">>,
       <<"j","u","l","y">>,
       <<"k","a","r","n","a","t","a","k","a">>,
       <<"k","e","r","a","l","a">>,
       <<"k","r","i","s","h","n","a">>,
       <<"l","i","t","r","e">>,
       <<"m","a","n","g","o">>,
       <<"m","a","y">>,
       <<"m","i","l","e">>,
       <<"m","o","n","d","a","y">>,
       <<"m","u","m","b","a","i">>,
       <<"m","u","s","e","u","m">>,
       <<"m","u","s","l","i","m">>,
       <<"n","a","g","p","u","r">>,
       <<"o","c","t","o","b","e","r">>,
       <<"o","r","a","n","g","e">>,
       <<"p","a","k","i","s","t","a","n">>,
       <<"p","a","s","s">>,
       <<"p","o","l","i","c","e"," ","s","t","a","t","i","o","n">>,
       <<"p","o","s","t"," ","o","f","f","i","c","e">>,
       <<"p","u","n","e">>,
       <<"p","u","n","j","a","b">>,
       <<"r","a","j","a","s","t","h","a","n">>,
       <<"r","a","m">>,
       <<"r","e","s","t","a","u","r","a","n","t">>,
       <<"s","a","t","u","r","d","a","y">>,
       <<"s","e","p","t","e","m","b","e","r">>,
       <<"s","h","o","p">>,
       <<"s","l","e","e","p">>,
       <<"s","o","u","t","h","a","f","r","i","c","a">>,
       <<"s","t","o","r","y">>,
       <<"s","u","n","d","a","y">>,
       <<"t","a","m","i","l"," ","n","a","d","u">>,
       <<"t","e","m","p","e","r","a","t","u","r","e">>,
       <<"t","e","m","p","l","e">>,
       <<"t","h","u","r","s","d","a","y">>,
       <<"t","o","i","l","e","t">>,
       <<"t","o","m","a","t","o">>,
       <<"t","o","w","n">>,
       <<"t","u","e","s","d","a","y">>,
       <<"u","s","a">>,
       <<"v","i","l","l","a","g","e">>,
       <<"v","o","i","c","e">>,
       <<"w","e","d","n","e","s","d","a","y">>,
       <<"w","e","i","g","h","t">> >>

\* list('abcdefghijklmnopqrstuvwxyz')
AVAILABLE_LETTERS_literal == ascii_lowercase

\* ['a', 'b', ..., 'z']
arr_literal == ascii_lowercase

---------------------------------------------------------------------------
(* Request and response values.                                            *)

\* Field(..., min_length=1, max_length=500)
min_length == 1

max_length == 500

\* TextInput of the backend accepts the text
TextInput_valid(t) == Len(t) >= min_length /\ Len(t) <= max_length

\* TextInput of the legacy server: text: str, no constraint
legacy_TextInput_valid(t) == TRUE

NoRequest == [app |-> "none", path |-> "", text |-> << >>]

NoResponse == [status_code |-> 0]

\* the framework's answer to a request body that fails TextInput
ValidationError == [status_code |-> 422]

HTTPException(code, detail) == [status_code |-> code, detail |-> detail]

Ok(body) == [status_code |-> 200, body |-> body]

GifResponse(src, alt) == [type |-> "gif", src |-> src, alt |-> alt]

SequenceResponse(data, original_text) ==
    [type |-> "sequence", data |-> data, original_text |-> original_text]

\* f"/static/gifs/{t}.gif"
gif_src(t) ==
    << "/","s","t","a","t","i","c","/","g","i","f","s","/" >> \o t \o << ".","g","i","f" >>

\* f"/static/letters/{c}.jpg"
letter_src(c) ==
    << "/","s","t","a","t","i","c","/","l","e","t","t","e","r","s","/" >>
        \o << c >> \o << ".","j","p","g" >>

---------------------------------------------------------------------------
(* process_text, backend.                                                  *)

\* text = input_data.text.lower().strip(); then the punctuation filter
normalize(s) == remove_punctuation(strip(lower(s)))

\* a faulty lookup: t is accepted when some phrase starts with it
is_phrase_prefix(t, phrases) ==
    \E i \in DOMAIN phrases :
        Len(t) <= Len(phrases[i]) /\ SubSeq(phrases[i], 1, Len(t)) = t

\* text in ISL_PHRASES
is_known_phrase(t, phrases) == in_list(t, phrases)

\* a faulty letter loop: only blanks are skipped
spell_unfiltered(t, letters) ==
    LET found == SelectSeq(t, LAMBDA c : c # " ")
    IN  [i \in 1..Len(found) |-> letter_src(found[i])]

\* the letter loop: one path per character found in `letters`, in order
spell(t, letters) ==
    LET found == SelectSeq(t, LAMBDA c : in_list(c, letters))
    IN  [i \in 1..Len(found) |-> letter_src(found[i])]

\* a faulty handler body: the `if not images` check is missing
process_text_body_unguarded(input, phrases, letters) ==
    LET t == normalize(input)
        images == spell(t, letters)
    IN  IF t = << >>
        THEN [text |-> t,
              response |-> HTTPException(400, "Text cannot be empty after processing")]
        ELSE IF is_known_phrase(t, phrases)
        THEN [text |-> t, response |-> Ok(GifResponse(gif_src(t), t))]
        ELSE [text |-> t, response |-> Ok(SequenceResponse(images, t))]

\* the handler body: the normalized text and the response
process_text_body(input, phrases, letters) ==
    LET t == normalize(input)
        images == spell(t, letters)
    IN  IF t = << >>
        THEN [text |-> t,
              response |-> HTTPException(400, "Text cannot be empty after processing")]
        ELSE IF is_known_phrase(t, phrases)
        THEN [text |-> t, response |-> Ok(GifResponse(gif_src(t), t))]
        ELSE IF images = << >>
        THEN [text |-> t,
              response |-> HTTPException(400, "No valid characters found to convert")]
        ELSE [text |-> t, response |-> Ok(SequenceResponse(images, t))]

---------------------------------------------------------------------------
(* process_text, legacy.                                                   *)

\* text = input_data.text.lower(); then the punctuation filter
legacy_normalize(s) == remove_punctuation(lower(s))

legacy_process_text_body(input, phrases, letters) ==
    LET t == legacy_normalize(input)
    IN  IF in_list(t, phrases)
        THEN [text |-> t, response |-> Ok(GifResponse(gif_src(t), t))]
        ELSE [text |-> t, response |-> Ok(SequenceResponse(spell(t, letters), t))]

---------------------------------------------------------------------------
(* The requests the model sends.                                           *)

ShortAlphabet == { "h", "i", "H", "!", " ", "1" }

ServerAlphabet == { "h", "i", "!", " " }

\* every sequence over `alphabet` of length 0..n
Strings(alphabet, n) == UNION { [1..k -> alphabet] : k \in 0..n }

ShortTexts == Strings(ShortAlphabet, MaxShortLen)

\* s with character c put in front of position k (k = Len(s) + 1: at the end)
insert_at(s, k, c) == SubSeq(s, 1, k - 1) \o << c >> \o SubSeq(s, k, Len(s))

\* the entries of both phrase tables
Phrases ==
    { ISL_PHRASES_literal[i] : i \in DOMAIN ISL_PHRASES_literal }
        \cup { isl_gif_literal[i] : i \in DOMAIN isl_gif_literal }

InsertChars == { "!", " " }

\* p itself and p with one character inserted anywhere, the ends included;
\* each also in upper case
PhraseVariants(p) ==
    LET plain == { p }
                 \cup { insert_at(p, k, c) : k \in 1..(Len(p) + 1), c \in InsertChars }
    IN  plain \cup { upper(v) : v \in plain }

PhraseTexts == UNION { PhraseVariants(p) : p \in Phrases }

\* texts at and just beyond the length limit of the backend's TextInput
LongTexts ==
    { [i \in 1..n |-> c] : c \in { "a", "!" }, n \in { max_length, max_length + 1 } }

RequestTexts == ShortTexts \cup PhraseTexts \cup LongTexts

ServerTexts == Strings(ServerAlphabet, MaxServerLen)

GetRequests ==
    { [app |-> "backend", path |-> p, text |-> << >>] :
        p \in { "/", "/health", "/api/phrases" } }

PostRequests(texts) ==
    { [app |-> "backend", path |-> p, text |-> t] :
        p \in { "/process", "/api/convert" }, t \in texts }
    \cup { [app |-> "legacy", path |-> "/process", text |-> t] : t \in texts }

Requests == GetRequests \cup PostRequests(RequestTexts)

ServerRequests == GetRequests \cup PostRequests(ServerTexts)

---------------------------------------------------------------------------
(* Startup and the endpoints.                                              *)

\* the module-level tables after import
Startup ==
    /\ ISL_PHRASES = ISL_PHRASES_literal
    /\ AVAILABLE_LETTERS = AVAILABLE_LETTERS_literal
    /\ isl_gif = isl_gif_literal
    /\ arr = arr_literal

\* one request has arrived at a freshly started server
Init ==
    /\ Startup
    /\ request \in Requests
    /\ entered = FALSE
    /\ text = << >>
    /\ response = NoResponse
    /\ pc = "received"
    /\ served = 0

\* a freshly started server, no request yet
ServerInit ==
    /\ Startup
    /\ request = NoRequest
    /\ entered = FALSE
    /\ text = << >>
    /\ response = NoResponse
    /\ pc = "idle"
    /\ served = 0

\* the next request arrives
Receive ==
    /\ pc \in { "idle", "responded" }
    /\ served < MaxServed
    /\ request' \in ServerRequests
    /\ entered' = FALSE
    /\ text' = << >>
    /\ response' = NoResponse
    /\ pc' = "received"
    /\ UNCHANGED << tables, served >>

Routed(app, path) ==
    /\ pc = "received"
    /\ request.app = app
    /\ request.path = path

\* GET /
root ==
    /\ Routed("backend", "/")
    /\ response' = Ok([message |-> "Audio to ISL API", version |-> "1.0.0",
                       docs |-> "/docs", health |-> "/health"])
    /\ pc' = "responded"
    /\ served' = served + 1
    /\ UNCHANGED << tables, request, entered, text >>

\* GET /health
health_check ==
    /\ Routed("backend", "/health")
    /\ response' = Ok([status |-> "healthy", version |-> "1.0.0",
                       phrases_count |-> Len(ISL_PHRASES),
                       letters_count |-> Len(AVAILABLE_LETTERS)])
    /\ pc' = "responded"
    /\ served' = served + 1
    /\ UNCHANGED << tables, request, entered, text >>

\* a faulty GET /api/phrases: ISL_PHRASES.sort() in place of sorted(ISL_PHRASES)
get_available_phrases_in_place ==
    /\ Routed("backend", "/api/phrases")
    /\ ISL_PHRASES' = sorted(ISL_PHRASES)
    /\ response' = Ok([phrases |-> ISL_PHRASES', count |-> Len(ISL_PHRASES)])
    /\ pc' = "responded"
    /\ served' = served + 1
    /\ UNCHANGED << AVAILABLE_LETTERS, isl_gif, arr, request, entered, text >>

\* GET /api/phrases
get_available_phrases ==
    /\ Routed("backend", "/api/phrases")
    /\ response' = Ok([phrases |-> sorted(ISL_PHRASES), count |-> Len(ISL_PHRASES)])
    /\ pc' = "responded"
    /\ served' = served + 1
    /\ UNCHANGED << tables, request, entered, text >>

\* a POST to a backend conversion endpoint: TextInput, then process_text's body
backend_conversion ==
    IF TextInput_valid(request.text)
    THEN LET r == process_text_body(request.text, ISL_PHRASES, AVAILABLE_LETTERS)
         IN  /\ entered' = TRUE
             /\ text' = r.text
             /\ response' = r.response
    ELSE /\ entered' = FALSE
         /\ text' = << >>
         /\ response' = ValidationError

\* POST /process, backend
process_text ==
    /\ Routed("backend", "/process")
    /\ backend_conversion
    /\ pc' = "responded"
    /\ served' = served + 1
    /\ UNCHANGED << tables, request >>

\* POST /api/convert, backend: return await process_text(input_data)
convert_text ==
    /\ Routed("backend", "/api/convert")
    /\ backend_conversion
    /\ pc' = "responded"
    /\ served' = served + 1
    /\ UNCHANGED << tables, request >>

\* POST /process, legacy
legacy_process_text ==
    /\ Routed("legacy", "/process")
    /\ IF legacy_TextInput_valid(request.text)
       THEN LET r == legacy_process_text_body(request.text, isl_gif, arr)
            IN  /\ entered' = TRUE
                /\ text' = r.text
                /\ response' = r.response
       ELSE /\ entered' = FALSE
            /\ text' = << >>
            /\ response' = ValidationError
    /\ pc' = "responded"
    /\ served' = served + 1
    /\ UNCHANGED << tables, request >>

Next ==
    \/ root
    \/ health_check
    \/ get_available_phrases
    \/ process_text
    \/ convert_text
    \/ legacy_process_text

\* one request, from arrival to response
Spec == Init /\ [][Next]_vars

ServerNext == Receive \/ Next

\* a server handling request after request
ServerSpec == ServerInit /\ [][ServerNext]_vars

---------------------------------------------------------------------------
(* Vocabulary of the properties.                                           *)

LowercaseLetters == { ascii_lowercase[i] : i \in DOMAIN ascii_lowercase }

UppercaseLetters == { ascii_uppercase[i] : i \in DOMAIN ascii_uppercase }

\* the a-z characters of t, in order
az_chars(t) == SelectSeq(t, LAMBDA c : c \in LowercaseLetters)

\* a backend conversion endpoint has answered the request
BackendAnswered ==
    /\ pc = "responded"
    /\ request.app = "backend"
    /\ request.path \in { "/process", "/api/convert" }

\* the legacy conversion endpoint has answered the request
LegacyAnswered ==
    /\ pc = "responded"
    /\ request.app = "legacy"
    /\ request.path = "/process"

\* a response carrying a conversion result of the given kind
IsResult(r, kind) ==
    /\ r.status_code = 200
    /\ "type" \in DOMAIN r.body
    /\ r.body.type = kind

IsGif(r) == IsResult(r, "gif")

IsSequence(r) == IsResult(r, "sequence")

\* the invalid-input error
IsInvalidInput(r) == r.status_code = 400 /\ DOMAIN r = { "status_code", "detail" }

\* t is phrase p up to letter case and inserted punctuation
matches_phrase(t, p) == lower(remove_punctuation(t)) = lower(remove_punctuation(p))

---------------------------------------------------------------------------
(* The properties, one per claim.                                          *)

\* C1: in the backend, a request text that equals an entry p of ISL_PHRASES
\* up to letter case and inserted punctuation is answered with the gif of
\* n, the lowercased punctuation-free p: src "/static/gifs/" n ".gif",
\* alt n; never a sequence, never an error.
C1_KnownPhraseGivesGif ==
    (BackendAnswered /\ entered) =>
        \A i \in DOMAIN ISL_PHRASES :
            LET n == lower(remove_punctuation(ISL_PHRASES[i]))
            IN  matches_phrase(request.text, ISL_PHRASES[i])
                    => response = Ok(GifResponse(gif_src(n), n))

\* C2: in the backend, a text whose normalized form is no entry of
\* ISL_PHRASES and holds an a-z character is answered with a sequence: one
\* "/static/letters/" c ".jpg" per a-z character c of the normalized text,
\* in order, everything else skipped; original_text is the normalized text.
C2_SpelledLetterByLetter ==
    (/\ BackendAnswered
     /\ entered
     /\ ~ in_list(normalize(request.text), ISL_PHRASES)
     /\ az_chars(normalize(request.text)) # << >>)
    => /\ text = normalize(request.text)
       /\ IsSequence(response)
       /\ Len(response.body.data) = Len(az_chars(text))
       /\ \A i \in 1..Len(az_chars(text)) :
              response.body.data[i] = letter_src(az_chars(text)[i])
       /\ response.body.original_text = text

\* C2's case: a sequence of two letters, a digit and a blank skipped
C2_Witness ==
    /\ BackendAnswered
    /\ IsSequence(response)
    /\ Len(response.body.data) = 2
    /\ \E i \in DOMAIN text : text[i] = "1"
    /\ \E i \in DOMAIN text : text[i] = " "

\* C3: the backend's normalization is idempotent: normalizing the
\* normalized text gives the normalized text.
C3_NormalizeIdempotent ==
    (BackendAnswered /\ entered) =>
        normalize(normalize(request.text)) = normalize(request.text)

\* C4: in the backend, a text with no a-z character after lowercasing is
\* answered with the invalid-input error (400), never with a gif or a
\* sequence, whether its normalized form is empty or not.
C4_NothingRenderableRejected ==
    (BackendAnswered /\ entered /\ az_chars(lower(request.text)) = << >>)
    => /\ IsInvalidInput(response)
       /\ ~ IsGif(response)
       /\ ~ IsSequence(response)

\* C4's case: rejected with a normalized text that is not empty
C4_Witness ==
    /\ BackendAnswered
    /\ entered
    /\ az_chars(lower(request.text)) = << >>
    /\ text # << >>
    /\ IsInvalidInput(response)

\* C5: in both deployments a successful response is a gif (type, src, alt)
\* or a sequence (type, data, original_text), never both, and a sequence
\* carries at least one path.
C5_OneKindNonEmptySequence ==
    ((BackendAnswered \/ LegacyAnswered) /\ response.status_code = 200)
    => /\ \/ IsGif(response) /\ DOMAIN response.body = { "type", "src", "alt" }
          \/ IsSequence(response)
                /\ DOMAIN response.body = { "type", "data", "original_text" }
       /\ IsSequence(response) => response.body.data # << >>

\* t is no entry of `phrases` but close to one: it contains an entry, or an
\* entry starts with it, or it is an entry once blanks are dropped from both
near_miss(t, phrases) ==
    /\ ~ in_list(t, phrases)
    /\ \E i \in DOMAIN phrases :
        LET p == phrases[i]
        IN  \/ \E a \in 1..Len(t) : \E b \in a..Len(t) : SubSeq(t, a, b) = p
            \/ Len(t) < Len(p) /\ SubSeq(p, 1, Len(t)) = t
            \/ SelectSeq(t, LAMBDA c : c \notin whitespace)
                   = SelectSeq(p, LAMBDA c : c \notin whitespace)

\* C6: in the backend the answer is a gif exactly when the normalized text
\* is an entry of ISL_PHRASES; an entry is always answered with its gif,
\* and a text that is no entry but contains one, or is the start of one, or
\* differs from one only in whitespace, is never answered with a gif.
C6_GifIffExactEntry ==
    (BackendAnswered /\ entered)
    => /\ IsGif(response) <=> in_list(text, ISL_PHRASES)
       /\ in_list(text, ISL_PHRASES)
              => response = Ok(GifResponse(gif_src(text), text))
       /\ near_miss(text, ISL_PHRASES) => ~ IsGif(response)

\* C6's case: a normalized text that is an entry but for a trailing blank,
\* spelled out
C6_Witness ==
    /\ BackendAnswered
    /\ entered
    /\ near_miss(text, ISL_PHRASES)
    /\ strip(text) # text
    /\ in_list(strip(text), ISL_PHRASES)
    /\ IsSequence(response)

\* C7: whatever requests the backend has handled, ISL_PHRASES and
\* AVAILABLE_LETTERS hold their startup value, and the answer to a
\* conversion request is the one the startup tables give for its text.
C7_TablesAndOutcomesFixed ==
    /\ ISL_PHRASES = ISL_PHRASES_literal
    /\ AVAILABLE_LETTERS = AVAILABLE_LETTERS_literal
    /\ BackendAnswered =>
          response =
              IF TextInput_valid(request.text)
              THEN process_text_body(request.text, ISL_PHRASES_literal,
                                     AVAILABLE_LETTERS_literal).response
              ELSE ValidationError

\* C7's case: a conversion answered with a gif after earlier requests
C7_Witness ==
    /\ BackendAnswered
    /\ served >= 2
    /\ IsGif(response)

\* C8: in both deployments process_text's body runs only on a text of 1 to
\* 500 characters; any other text is rejected and gets no gif or sequence.
C8_OnlyBoundedTextsProcessed ==
    (BackendAnswered \/ LegacyAnswered)
    => /\ entered => TextInput_valid(request.text)
       /\ ~ TextInput_valid(request.text) => response.status_code # 200

\* C9: the backend's normalized text holds no uppercase letter and no
\* punctuation character and has no leading or trailing whitespace.
C9_NormalizedPostconditions ==
    (BackendAnswered /\ entered)
    => /\ \A i \in DOMAIN text : text[i] \notin UppercaseLetters
       /\ \A i \in DOMAIN text : text[i] \notin punctuation
       /\ strip(text) = text

\* C10: both phrase tables are sets of lowercase strings: no entry holds an
\* uppercase letter and no entry occurs twice.
C10_PhraseTablesLowercaseSets ==
    \A table \in { ISL_PHRASES, isl_gif } :
        \A i \in DOMAIN table :
            /\ \A k \in DOMAIN table[i] : table[i][k] \notin UppercaseLetters
            /\ \A j \in DOMAIN table : table[j] = table[i] => j = i
=============================================================================
